---- MODULE Spec2Model ----
(***************************************************************************)
(* Model of dlfa/solvers/pretraining/pretrainer.py: the Pretrainer base    *)
(* class (configuration, memoized dataset, train() driver) together with  *)
(* the collaborators it calls (loader and model builder of a subclass,    *)
(* dataset indexing/padding, the optimization engine's compile and fit).   *)
(* Each public method is one action; the collaborators' outcomes are the   *)
(* action's inputs.                                                        *)
(***************************************************************************)
EXTENDS Integers, Sequences, FiniteSets, TLC

VARIABLES
    config,     \* num_epochs, validation_split (tenths), early_stopping, patience, loss
    task,       \* which of _load_dataset / _get_model the subclass overrides, and how
    source,     \* what the loader's dataset yields from as_training_data()
    dataset,    \* self.dataset: None or the identity of the cached dataset object
    loads,      \* number of _load_dataset() invocations so far
    builds,     \* number of _get_model() invocations so far
    compiles,   \* number of model.compile() invocations so far
    fits,       \* number of model.fit() invocations so far
    weights,    \* heap of layer objects: weights[i] is the parameter version of object i
    last,       \* record of the most recent call on the task
    prev,       \* what the call before it returned
    ncalls,     \* number of calls made on the task
    trains,     \* number of train() calls made
    completed   \* number of train() calls that returned normally

vars == <<config, task, source, dataset, loads, builds, compiles, fits,
          weights, last, prev, ncalls, trains, completed>>

----------------------------------------------------------------------------
(* Bounds of the model *)

MaxCalls == 3
MaxFitCalls == 2
MaxEpochs == 2
MaxSplit == 1
MaxPatience == 2
MaxExamples == 2
MaxSlots == 2

(* Values *)

None == 0
Tokens == {1, 2}
NoError == "ok"

\* The layer object the solver keeps as a member variable.
SolverLayer == 1
FreshLayer == 2

Min(a, b) == IF a < b THEN a ELSE b

Unset == [kind |-> "unset", arrays |-> <<>>]
NoKwargs == [keys |-> {}, nb_epoch |-> 0, validation_split |-> 0, callbacks |-> <<>>]
NoFit == [called |-> FALSE, x |-> Unset, y |-> Unset, kwargs |-> NoKwargs]
NoModel == [id |-> 0, layer |-> 0, loss |-> "", optimizer |-> "", metrics |-> <<>>]

----------------------------------------------------------------------------
(* __init__ *)

Configs ==
    [num_epochs : 1..MaxEpochs, validation_split : 0..MaxSplit,
     early_stopping : BOOLEAN, patience : 0..MaxPatience,
     loss : {"categorical_crossentropy"}]

LoaderKinds == {"abstract", "dataset", "none", "ioerror"}
BuilderKinds == {"abstract", "shared", "rebuilt"}
Tasks == [loader : LoaderKinds, builder : BuilderKinds]

----------------------------------------------------------------------------
(* The data a loaded dataset yields.  An example is tagged as a tuple of   *)
(* aligned input slots or as a single input; a dataset is homogeneous.     *)

Examples(isTuple, width) == [tuple : {isTuple}, slots : [1..width -> Tokens]]

SourcesOf(isTuple, width) ==
    UNION {[inputs : [1..n -> Examples(isTuple, width)], labels : [1..n -> Tokens]]
             : n \in 0..MaxExamples}

Sources ==
    SourcesOf(FALSE, 1) \cup UNION {SourcesOf(TRUE, w) : w \in 1..MaxSlots}

SampleSources ==
    { [inputs |-> <<>>, labels |-> <<>>],
      [inputs |-> <<[tuple |-> FALSE, slots |-> <<1>>],
                    [tuple |-> FALSE, slots |-> <<2>>]>>, labels |-> <<2, 1>>],
      [inputs |-> <<[tuple |-> TRUE, slots |-> <<1, 2>>],
                    [tuple |-> TRUE, slots |-> <<2, 2>>]>>, labels |-> <<1, 2>>] }

----------------------------------------------------------------------------
(* _load_dataset and get_dataset *)

\* _load_dataset(): the base class raises; a subclass returns a new dataset
\* object (identified by the ordinal of the load), returns None, or fails.
_load_dataset(kind, ordinal) ==
    CASE kind = "abstract" -> [err |-> "NotImplementedError", value |-> None]
      [] kind = "ioerror"  -> [err |-> "IOError", value |-> None]
      [] kind = "none"     -> [err |-> NoError, value |-> None]
      [] OTHER             -> [err |-> NoError, value |-> ordinal]

\* Variants of get_dataset() with the memoization broken: one loads on every
\* call, the other loads but does not keep what it loaded.
get_dataset_no_cache(ds, ld, kind) ==
    LET r == _load_dataset(kind, ld + 1)
    IN  IF r.err # NoError
        THEN [dataset |-> ds, loads |-> ld + 1, ret |-> None, err |-> r.err]
        ELSE [dataset |-> r.value, loads |-> ld + 1, ret |-> r.value, err |-> NoError]

get_dataset_forgets(ds, ld, kind) ==
    LET r == _load_dataset(kind, ld + 1)
    IN  IF r.err # NoError
        THEN [dataset |-> ds, loads |-> ld + 1, ret |-> None, err |-> r.err]
        ELSE [dataset |-> ds, loads |-> ld + 1, ret |-> r.value, err |-> NoError]

\* get_dataset(): load when self.dataset is None, then return self.dataset.
get_dataset(ds, ld, kind) ==
    IF ds = None
    THEN LET r == _load_dataset(kind, ld + 1)
         IN  IF r.err # NoError
             THEN [dataset |-> ds, loads |-> ld + 1, ret |-> None, err |-> r.err]
             ELSE [dataset |-> r.value, loads |-> ld + 1, ret |-> r.value,
                   err |-> NoError]
    ELSE [dataset |-> ds, loads |-> ld, ret |-> ds, err |-> NoError]

----------------------------------------------------------------------------
(* Shaping of inputs and labels in train() *)

RECURSIVE MinWidth(_)
MinWidth(inputs) ==
    IF Len(inputs) = 1 THEN Len(inputs[1].slots)
    ELSE Min(Len(inputs[1].slots), MinWidth(Tail(inputs)))

\* zip(*inputs): one sequence per slot, as long as the shortest example.
Zip(inputs) ==
    [k \in 1..MinWidth(inputs) |-> [i \in 1..Len(inputs) |-> inputs[i].slots[k]]]

\* numpy.asarray of a list: the same elements in the same order.
AsArray(xs) == [i \in 1..Len(xs) |-> xs[i]]

\* Variant without the transposition: one array per example.
ShapeInputsNoTranspose(inputs) ==
    IF inputs[1].tuple
    THEN [kind |-> "list", arrays |-> [i \in 1..Len(inputs) |-> AsArray(inputs[i].slots)]]
    ELSE [kind |-> "array", arrays |-> <<AsArray([i \in 1..Len(inputs) |-> inputs[i].slots[1]])>>]

ShapeInputs(inputs) ==
    IF inputs[1].tuple
    THEN [kind |-> "list", arrays |-> [k \in 1..Len(Zip(inputs)) |-> AsArray(Zip(inputs)[k])]]
    ELSE [kind |-> "array", arrays |-> <<AsArray([i \in 1..Len(inputs) |-> inputs[i].slots[1]])>>]

ShapeLabels(labels) == [kind |-> "array", arrays |-> <<AsArray(labels)>>]

----------------------------------------------------------------------------
(* Keyword arguments of model.fit *)

EarlyStopping(monitor, patience) == [monitor |-> monitor, patience |-> patience]

\* Variants that pass validation_split, or the callback, unconditionally.
fit_kwargs_always_split(cfg) ==
    [keys |-> {"nb_epoch", "validation_split"} \cup
              (IF cfg.early_stopping THEN {"callbacks"} ELSE {}),
     nb_epoch |-> cfg.num_epochs, validation_split |-> cfg.validation_split,
     callbacks |-> IF cfg.early_stopping
                   THEN <<EarlyStopping("val_loss", cfg.patience)>> ELSE <<>>]

fit_kwargs_always_callbacks(cfg) ==
    [keys |-> {"nb_epoch", "callbacks"} \cup
              (IF cfg.validation_split > 0 THEN {"validation_split"} ELSE {}),
     nb_epoch |-> cfg.num_epochs,
     validation_split |-> IF cfg.validation_split > 0 THEN cfg.validation_split ELSE 0,
     callbacks |-> <<EarlyStopping("val_loss", cfg.patience)>>]

fit_kwargs(cfg) ==
    LET k0 == [NoKwargs EXCEPT !.keys = {"nb_epoch"}, !.nb_epoch = cfg.num_epochs]
        k1 == IF cfg.validation_split > 0
              THEN [k0 EXCEPT !.keys = @ \cup {"validation_split"},
                              !.validation_split = cfg.validation_split]
              ELSE k0
        k2 == IF cfg.early_stopping
              THEN [k1 EXCEPT !.keys = @ \cup {"callbacks"},
                              !.callbacks = <<EarlyStopping("val_loss", cfg.patience)>>]
              ELSE k1
    IN  k2

----------------------------------------------------------------------------
(* Collaborators of train() *)

\* The collaborator calls of train() that may fail for reasons of their own.
FailPoints ==
    {"to_indexed_dataset", "pad_instances", "as_training_data", "_get_model",
     "summary", "compile", "fit"}

\* The error each of them raises when it fails.
ErrorOf(name) ==
    CASE name = "to_indexed_dataset"  -> "IndexingError"
      [] name = "pad_instances"       -> "PaddingError"
      [] name = "as_training_data"    -> "VectorizeError"
      [] name = "_get_model"          -> "BuildError"
      [] name = "summary"             -> "SummaryError"
      [] name = "compile"             -> "CompileError"
      [] name = "fit"                 -> "FitError"
      [] name = "fit_word_dictionary" -> "DictionaryError"
      [] OTHER                        -> NoError

\* What the collaborators do during one call: which of them fails (if any)
\* and how many epochs the engine gets through.
Envs == [failAt : FailPoints \cup {"none"}, epochs : 1..MaxEpochs]

\* Layer objects: SolverLayer is the one the solver keeps as a member
\* variable, FreshLayer the one constructed last (an earlier construction is
\* garbage once the next one replaces it).
NewLayer(w) == <<w[SolverLayer], 0>>

\* A subclass's _get_model() wires a new model from the layer object the
\* solver holds, or from a layer it constructs anew.
WireModel(kind, ordinal, w) ==
    IF kind = "shared"
    THEN [err |-> NoError, weights |-> w,
          model |-> [NoModel EXCEPT !.id = ordinal, !.layer = SolverLayer]]
    ELSE [err |-> NoError, weights |-> NewLayer(w),
          model |-> [NoModel EXCEPT !.id = ordinal, !.layer = FreshLayer]]

\* _get_model(): the base class raises; a subclass builds the model.
_get_model(kind, ordinal, w) ==
    IF kind = "abstract"
    THEN [err |-> "NotImplementedError", model |-> NoModel, weights |-> w]
    ELSE WireModel(kind, ordinal, w)

\* model.fit: runs the whole epoch budget unless a callback stops it or it
\* fails; every epoch run updates the parameters of the model's layer in place.
EpochsRun(kwargs, env) ==
    LET n == Min(env.epochs, kwargs.nb_epoch)
    IN  IF env.failAt = "fit" THEN n - 1
        ELSE IF "callbacks" \in kwargs.keys THEN n
        ELSE kwargs.nb_epoch

Fit(model, kwargs, w, env) ==
    [w EXCEPT ![model.layer] = @ + EpochsRun(kwargs, env)]

\* Variant that trains a deep copy of the model _get_model() returned.
HandCopyToFit(model, w) ==
    [model |-> [model EXCEPT !.layer = FreshLayer], weights |-> NewLayer(w)]

\* The object train() calls compile and fit on is the one _get_model() returned.
HandToFit(model, w) == [model |-> model, weights |-> w]

----------------------------------------------------------------------------
(* train() *)

\* Variants with the model built before the data is prepared, and with fit
\* called on the model before it is compiled.
TrainStepsBuildFirst ==
    <<"get_dataset", "_get_model", "summary", "to_indexed_dataset", "pad_instances",
      "as_training_data", "asarray", "compile", "fit">>

TrainStepsFitBeforeCompile ==
    <<"get_dataset", "to_indexed_dataset", "pad_instances", "as_training_data",
      "asarray", "_get_model", "summary", "fit", "compile">>

\* The statements of train() in program order.
TrainSteps ==
    <<"get_dataset", "to_indexed_dataset", "pad_instances", "as_training_data",
      "asarray", "_get_model", "summary", "compile", "fit">>

\* The frame of one call: the fields of self and of the world it touches, the
\* locals of train(), the steps taken and the exception raised (if any).
Frame(op) ==
    [op |-> op, dataset |-> dataset, loads |-> loads, builds |-> builds,
     compiles |-> compiles, fits |-> fits, weights |-> weights,
     err |-> NoError, steps |-> <<>>, ret |-> None,
     got |-> FALSE, local |-> None, indexed |-> FALSE, padded |-> FALSE,
     haveData |-> FALSE, rawInputs |-> <<>>, rawLabels |-> <<>>,
     inputs |-> Unset, labels |-> Unset, model |-> NoModel, fit |-> NoFit]

Raise(f, e) == [f EXCEPT !.err = e]

\* One collaborator call: needs the local it is called on, may fail.
Collab(f, name, bound, env, ok) ==
    IF ~bound THEN Raise(f, "NameError")
    ELSE IF env.failAt = name THEN Raise(f, ErrorOf(name))
    ELSE ok

Statement(name, f, env) ==
    CASE name = "get_dataset" ->
            LET g == get_dataset(f.dataset, f.loads, task.loader)
            IN  [f EXCEPT !.dataset = g.dataset, !.loads = g.loads, !.err = g.err,
                          !.got = (g.err = NoError), !.local = g.ret]
      [] name = "to_indexed_dataset" ->
            IF f.got /\ f.local = None THEN Raise(f, "AttributeError")
            ELSE Collab(f, name, f.got, env, [f EXCEPT !.indexed = TRUE])
      [] name = "pad_instances" ->
            Collab(f, name, f.indexed, env, [f EXCEPT !.padded = TRUE])
      [] name = "as_training_data" ->
            Collab(f, name, f.indexed, env,
                   [f EXCEPT !.haveData = TRUE, !.rawInputs = source.inputs,
                             !.rawLabels = source.labels])
      [] name = "asarray" ->
            IF ~f.haveData THEN Raise(f, "NameError")
            ELSE IF Len(f.rawInputs) = 0 THEN Raise(f, "IndexError")
            ELSE [f EXCEPT !.inputs = ShapeInputs(f.rawInputs),
                           !.labels = ShapeLabels(f.rawLabels)]
      [] name = "_get_model" ->
            LET b == _get_model(task.builder, f.builds + 1, f.weights)
                g == [f EXCEPT !.builds = @ + 1]
            IN  IF b.err # NoError THEN Raise(g, b.err)
                ELSE Collab(g, name, TRUE, env,
                            [g EXCEPT !.model = HandToFit(b.model, b.weights).model,
                                      !.weights = HandToFit(b.model, b.weights).weights])
      [] name = "summary" ->
            Collab(f, name, f.model.id # 0, env, f)
      [] name = "compile" ->
            LET g == [f EXCEPT !.compiles = @ + 1]
            IN  IF f.model.id = 0 THEN Raise(f, "NameError")
                ELSE Collab(g, name, TRUE, env,
                            [g EXCEPT !.model.loss = config.loss,
                                      !.model.optimizer = "adam",
                                      !.model.metrics = <<"accuracy">>])
      [] OTHER ->
            LET kw == fit_kwargs(config)
                g  == [f EXCEPT !.fits = @ + 1,
                                !.fit = [called |-> TRUE, x |-> f.inputs,
                                         y |-> f.labels, kwargs |-> kw],
                                !.weights = Fit(f.model, kw, f.weights, env)]
            IN  IF f.model.id = 0 THEN Raise(f, "NameError")
                ELSE IF env.failAt = "fit" THEN Raise(g, ErrorOf("fit")) ELSE g

\* Variant that catches each statement's exception and carries on, raising
\* the last one caught at the end.
RECURSIVE RunPastErrors(_, _, _)
RunPastErrors(stmts, f, env) ==
    IF stmts = <<>> THEN f
    ELSE LET g == Statement(Head(stmts),
                            [f EXCEPT !.steps = Append(@, Head(stmts)),
                                      !.err = NoError], env)
         IN  RunPastErrors(Tail(stmts),
                           [g EXCEPT !.err = IF g.err # NoError THEN g.err ELSE f.err],
                           env)

\* An exception ends the call: no statement after the raising one runs.
RECURSIVE Run(_, _, _)
Run(stmts, f, env) ==
    IF stmts = <<>> \/ f.err # NoError THEN f
    ELSE Run(Tail(stmts),
             Statement(Head(stmts), [f EXCEPT !.steps = Append(@, Head(stmts))], env),
             env)

train(env) == Run(TrainSteps, Frame("train"), env)

\* fit_data_indexer(data_indexer)
fit_data_indexer(env) ==
    LET f == [Frame("fit_data_indexer") EXCEPT !.steps = <<"get_dataset">>]
        g == get_dataset(f.dataset, f.loads, task.loader)
        h == [f EXCEPT !.dataset = g.dataset, !.loads = g.loads, !.err = g.err,
                       !.got = (g.err = NoError), !.local = g.ret]
    IN  IF h.err # NoError THEN h
        ELSE IF env.failAt = "fit_word_dictionary"
             THEN Raise([h EXCEPT !.steps = Append(@, "fit_word_dictionary")],
                        ErrorOf("fit_word_dictionary"))
             ELSE [h EXCEPT !.steps = Append(@, "fit_word_dictionary")]

GetDatasetCall ==
    LET f == [Frame("get_dataset") EXCEPT !.steps = <<"get_dataset">>]
        g == get_dataset(f.dataset, f.loads, task.loader)
    IN  [f EXCEPT !.dataset = g.dataset, !.loads = g.loads, !.err = g.err,
                  !.ret = g.ret]

----------------------------------------------------------------------------
(* The state machine *)

\* What is remembered of a finished call.
Outcome(f) ==
    [op |-> f.op, err |-> f.err, ret |-> f.ret, steps |-> f.steps,
     loaded |-> f.loads - loads, built |-> f.builds - builds,
     compiled |-> f.compiles - compiles, fitted |-> f.fits - fits,
     updated |-> (f.weights[SolverLayer] # weights[SolverLayer]),
     trained |-> IF f.fit.called THEN f.weights[f.model.layer] ELSE 0,
     inputs |-> f.inputs, labels |-> f.labels, model |-> f.model, fit |-> f.fit]

Finish(f) ==
    /\ dataset' = f.dataset
    /\ loads' = f.loads
    /\ builds' = f.builds
    /\ compiles' = f.compiles
    /\ fits' = f.fits
    /\ weights' = f.weights
    /\ prev' = [op |-> last.op, err |-> last.err, ret |-> last.ret,
                loaded |-> last.loaded]
    /\ last' = Outcome(f)
    /\ ncalls' = ncalls + 1
    /\ trains' = IF f.op = "train" THEN trains + 1 ELSE trains
    /\ completed' = IF f.op = "train" /\ f.err = NoError THEN completed + 1
                    ELSE completed
    /\ UNCHANGED <<config, task, source>>

InitWith(cfgs, tasks, sources) ==
    /\ config \in cfgs
    /\ task \in tasks
    /\ source \in sources
    /\ dataset = None
    /\ loads = 0
    /\ builds = 0
    /\ compiles = 0
    /\ fits = 0
    /\ weights = <<0>>
    /\ last = [op |-> "none", err |-> NoError, ret |-> None, steps |-> <<>>,
               loaded |-> 0, built |-> 0, compiled |-> 0, fitted |-> 0,
               updated |-> FALSE, trained |-> 0, inputs |-> Unset, labels |-> Unset,
               model |-> NoModel, fit |-> NoFit]
    /\ prev = [op |-> "none", err |-> NoError, ret |-> None, loaded |-> 0]
    /\ ncalls = 0
    /\ trains = 0
    /\ completed = 0

\* Configurations that differ in what the lifecycle depends on only.
LifecycleConfigs ==
    {c \in Configs : c.validation_split = 0 /\ c.patience = MaxPatience
                       /\ c.early_stopping}

ConcreteTasks == {t \in Tasks : t.loader = "dataset" /\ t.builder = "shared"}

Init == InitWith(LifecycleConfigs, Tasks, SampleSources)

\* Every configuration, on a concrete task.
InitFit == InitWith(Configs, ConcreteTasks, SampleSources)

\* Every dataset, on a concrete task.
InitShape == InitWith(LifecycleConfigs, ConcreteTasks, Sources)

CallGetDataset ==
    /\ ncalls < MaxCalls
    /\ Finish(GetDatasetCall)

CallFitDataIndexer ==
    /\ ncalls < MaxCalls
    /\ \E failAt \in {"fit_word_dictionary", "none"} :
          Finish(fit_data_indexer([failAt |-> failAt, epochs |-> 1]))

CallTrain ==
    /\ ncalls < MaxCalls
    /\ \E env \in Envs : Finish(train(env))

\* The solver's own training step constructs anew a layer it did not keep.
SolverRebuildsLayer ==
    /\ last.op = "train"
    /\ weights' = NewLayer(weights)
    /\ UNCHANGED <<config, task, source, dataset, loads, builds, compiles, fits,
                   last, prev, ncalls, trains, completed>>

Next ==
    \/ CallGetDataset
    \/ CallFitDataIndexer
    \/ CallTrain
    \/ SolverRebuildsLayer

\* A first train() call on a new task.
FirstTrain ==
    /\ ncalls = 0
    /\ CallTrain

Spec == Init /\ [][Next]_vars

\* The first calls on a new task.
FirstCalls ==
    /\ ncalls < MaxFitCalls
    /\ Next

SpecFit == InitFit /\ [][FirstCalls]_vars

SpecShape == InitShape /\ [][FirstTrain]_vars

----------------------------------------------------------------------------
(* Properties *)

Last(seq) == seq[Len(seq)]
Has(seq, x) == \E i \in 1..Len(seq) : seq[i] = x
Count(seq, x) == Cardinality({i \in 1..Len(seq) : seq[i] = x})
Before(seq, x, y) ==
    \E i, j \in 1..Len(seq) : i < j /\ seq[i] = x /\ seq[j] = y

Trained == last.op = "train"
TrainedOk == last.op = "train" /\ last.err = NoError

SuccessiveGets == prev.op = "get_dataset" /\ last.op = "get_dataset"

\* C1 as stated: whatever the loader returns, two get_dataset() calls in
\* succession return the same object and the loader has been invoked exactly
\* once in total.
C1_AnyLoaderLoadsOnce ==
    (SuccessiveGets /\ prev.err = NoError /\ last.err = NoError)
        => (last.ret = prev.ret /\ loads = 1)

\* C1 amended: when the loader returns a dataset object (not None), two
\* get_dataset() calls in succession both return that same object, which is
\* the cached one, and the loader has been invoked exactly once in total.
C1_DatasetLoaderLoadsOnce ==
    (SuccessiveGets /\ task.loader = "dataset")
        => /\ prev.err = NoError /\ last.err = NoError
           /\ prev.ret # None
           /\ last.ret = prev.ret
           /\ dataset = last.ret
           /\ last.loaded = 0
           /\ loads = 1

C1_Witness ==
    /\ SuccessiveGets /\ ncalls = 2
    /\ task.loader = "dataset"
    /\ last.ret = 1 /\ prev.loaded = 1 /\ loads = 1

\* The examples of src, in their order, slot by slot.
SingleShaped(shape, src) ==
    /\ shape.kind = "array"
    /\ Len(shape.arrays) = 1
    /\ Len(shape.arrays[1]) = Len(src)
    /\ \A i \in 1..Len(src) : shape.arrays[1][i] = src[i].slots[1]

TupleShaped(shape, src, n) ==
    /\ shape.kind = "list"
    /\ Len(shape.arrays) = n
    /\ \A k \in 1..n :
          /\ Len(shape.arrays[k]) = Len(src)
          /\ \A i \in 1..Len(src) : shape.arrays[k][i] = src[i].slots[k]

LabelsShaped(shape, labels) ==
    /\ shape.kind = "array"
    /\ Len(shape.arrays) = 1
    /\ Len(shape.arrays[1]) = Len(labels)
    /\ \A i \in 1..Len(labels) : shape.arrays[1][i] = labels[i]

Shaped(inputs, labels, src) ==
    /\ (\A i \in 1..Len(src.inputs) : ~src.inputs[i].tuple)
          => SingleShaped(inputs, src.inputs)
    /\ \A n \in 1..MaxSlots :
          (\A i \in 1..Len(src.inputs) :
              src.inputs[i].tuple /\ Len(src.inputs[i].slots) = n)
          => TupleShaped(inputs, src.inputs, n)
    /\ LabelsShaped(labels, src.labels)

\* The last train() call got as far as shaping what as_training_data()
\* returned.
Vectorized == Trained /\ Has(last.steps, "asarray")

\* C3 as stated: for every dataset, train() shapes single-slot inputs into one
\* array, N-tuples into N arrays by slot, labels into one array, in example
\* order.
C3_ShapesEveryDataset ==
    Vectorized => Shaped(last.inputs, last.labels, source)

\* C3 amended: for every dataset with at least one example, train() shapes
\* single-slot inputs into one array in example order, N-tuples into exactly N
\* arrays where array k holds at position i slot k of example i, and labels
\* into one array in example order.
C3_ShapesNonEmptyDataset ==
    (Vectorized /\ Len(source.inputs) > 0)
        => (last.err # "IndexError" /\ Shaped(last.inputs, last.labels, source))

C3_Witness ==
    /\ Vectorized
    /\ Len(source.inputs) = 2
    /\ source.inputs[1].tuple
    /\ Len(source.inputs[1].slots) = 2
    /\ source.inputs[1].slots[1] # source.inputs[1].slots[2]
    /\ source.inputs[1].slots # source.inputs[2].slots
    /\ last.inputs.kind = "list"
    /\ Len(last.inputs.arrays) = 2

\* C4: the fit call of train() carries no validation_split argument when the
\* configured validation_split is 0.0, and carries the configured value when
\* it is greater than 0.
C4_ValidationSplitArgument ==
    (Trained /\ last.fit.called)
        => /\ (config.validation_split = 0)
                => ("validation_split" \notin last.fit.kwargs.keys)
           /\ (config.validation_split > 0)
                => /\ "validation_split" \in last.fit.kwargs.keys
                   /\ last.fit.kwargs.validation_split = config.validation_split

C4_Witness ==
    /\ Trained /\ last.fit.called
    /\ config.validation_split = 0
    /\ config.early_stopping
    /\ "validation_split" \notin last.fit.kwargs.keys

\* C5: the fit call of train() carries no callbacks argument when
\* early_stopping is false, whatever patience and validation_split are, and
\* exactly one stopping callback, monitoring val_loss with the configured
\* patience, when early_stopping is true.
C5_CallbacksArgument ==
    (Trained /\ last.fit.called)
        => /\ (~config.early_stopping)
                => ("callbacks" \notin last.fit.kwargs.keys)
           /\ config.early_stopping
                => /\ "callbacks" \in last.fit.kwargs.keys
                   /\ last.fit.kwargs.callbacks =
                         <<[monitor |-> "val_loss", patience |-> config.patience]>>

C5_Witness ==
    /\ Trained /\ last.fit.called
    /\ ~config.early_stopping
    /\ config.patience > 0
    /\ config.validation_split > 0
    /\ "callbacks" \notin last.fit.kwargs.keys

Abstract == task.loader = "abstract" \/ task.builder = "abstract"

NoShaping ==
    /\ ~Has(last.steps, "to_indexed_dataset")
    /\ ~Has(last.steps, "pad_instances")
    /\ ~Has(last.steps, "as_training_data")
    /\ ~Has(last.steps, "asarray")

\* C6 as stated: on a task whose loader and/or builder is not overridden,
\* train() fails with NotImplementedError before any indexing, padding or
\* shaping, and fit is never invoked (calls cut short by another collaborator's
\* failure set aside).
C6_AbstractFailsBeforeShaping ==
    (Trained /\ Abstract /\ last.err \in {NoError, "NotImplementedError"})
        => /\ last.err = "NotImplementedError"
           /\ NoShaping
           /\ ~last.fit.called

\* C6 amended: on a task whose loader is not overridden, train() fails with
\* NotImplementedError before any indexing, padding or shaping; on a task
\* where only the builder is not overridden, train() fails too, and when it
\* fails with NotImplementedError the dataset has already been indexed,
\* padded and shaped; in both cases fit is never invoked.
C6_AbstractFails ==
    (Trained /\ Abstract)
        => /\ last.err # NoError
           /\ ~last.fit.called /\ last.fitted = 0
           /\ (task.loader = "abstract")
                => (last.err = "NotImplementedError" /\ NoShaping)
           /\ (task.loader # "abstract" /\ last.err = "NotImplementedError")
                => /\ Before(last.steps, "to_indexed_dataset", "_get_model")
                   /\ Before(last.steps, "pad_instances", "_get_model")
                   /\ Before(last.steps, "asarray", "_get_model")
                   /\ last.inputs.kind # "unset"

C6_Witness ==
    /\ Trained
    /\ task.loader = "dataset" /\ task.builder = "abstract"
    /\ last.err = "NotImplementedError"
    /\ last.inputs.kind # "unset"

\* C7: a successful train() call gets the dataset, indexes, pads, shapes,
\* builds the model, compiles and fits, in that order and once each, with
\* nb_epoch equal to the configured num_epochs and with the inputs and labels
\* of all examples in their order.
C7_SuccessfulTrainSequence ==
    TrainedOk
        => /\ Before(last.steps, "get_dataset", "to_indexed_dataset")
           /\ Before(last.steps, "to_indexed_dataset", "pad_instances")
           /\ Before(last.steps, "pad_instances", "as_training_data")
           /\ Before(last.steps, "as_training_data", "asarray")
           /\ Before(last.steps, "asarray", "_get_model")
           /\ Before(last.steps, "_get_model", "compile")
           /\ Before(last.steps, "compile", "fit")
           /\ \A i \in 1..Len(last.steps) : Count(last.steps, last.steps[i]) = 1
           /\ last.built = 1 /\ last.compiled = 1 /\ last.fitted = 1
           /\ last.model.id = builds
           /\ last.model.loss = config.loss
           /\ last.fit.called
           /\ "nb_epoch" \in last.fit.kwargs.keys
           /\ last.fit.kwargs.nb_epoch = config.num_epochs
           /\ Shaped(last.fit.x, last.fit.y, source)

C7_Witness ==
    /\ TrainedOk
    /\ ncalls = 1
    /\ Len(source.inputs) = 2
    /\ config.num_epochs = MaxEpochs
    /\ last.fit.kwargs.nb_epoch = MaxEpochs
    /\ fits = 1

C9_SharedLayerCarriesUpdate ==
    (TrainedOk /\ task.builder = "shared")
        => /\ last.model.layer = SolverLayer
           /\ last.updated
           /\ last.trained > 0
           /\ weights[SolverLayer] = last.trained
           /\ (Len(weights) >= FreshLayer)
                => (weights[FreshLayer] = 0 /\ weights[FreshLayer] # last.trained)

C9_Witness ==
    /\ TrainedOk /\ task.builder = "shared"
    /\ Len(weights) = FreshLayer
    /\ weights[SolverLayer] = MaxEpochs
    /\ weights[FreshLayer] = 0

\* The errors each statement of train() can raise.
RaisedBy(step) ==
    CASE step = "get_dataset"        -> {"NotImplementedError", "IOError"}
      [] step = "to_indexed_dataset" -> {"AttributeError", "IndexingError"}
      [] step = "pad_instances"      -> {"PaddingError"}
      [] step = "as_training_data"   -> {"VectorizeError"}
      [] step = "asarray"            -> {"IndexError"}
      [] step = "_get_model"         -> {"NotImplementedError", "BuildError"}
      [] step = "summary"            -> {"SummaryError"}
      [] step = "compile"            -> {"CompileError"}
      [] step = "fit"                -> {"FitError"}
      [] OTHER                       -> {}

ProgramOrder ==
    <<"get_dataset", "to_indexed_dataset", "pad_instances", "as_training_data",
      "asarray", "_get_model", "summary", "compile", "fit">>

\* C10: a failure of any step of train() is what train() raises; the failing
\* step is the last one executed and every step ran at most once; when it
\* precedes fit, fit is not invoked and the solver's layer is unchanged.
C10_FailurePropagates ==
    (Trained /\ last.err # NoError)
        => /\ Len(last.steps) > 0
           /\ last.steps = SubSeq(ProgramOrder, 1, Len(last.steps))
           /\ last.err \in RaisedBy(Last(last.steps))
           /\ last.loaded <= 1 /\ last.built <= 1
           /\ last.compiled <= 1 /\ last.fitted <= 1
           /\ (Last(last.steps) # "fit")
                => (~last.fit.called /\ last.fitted = 0 /\ ~last.updated)

C10_Witness ==
    /\ Trained
    /\ last.err = "CompileError"
    /\ last.built = 1
    /\ ~last.fit.called

====
